---- MODULE Spec2Model ----
(***************************************************************************)
(* Model of the filtered ad query and its read-through cache               *)
(* (1way-market/v3): the repository's FindWithFilter, the use case's       *)
(* GetAds / CreateAd / UpdateAd / DeleteAd and the cache key.              *)
(*                                                                         *)
(* The relational store is the ads table, a sequence of rows in storage    *)
(* order; the cache is the redis key space, a function from keys to the    *)
(* stored JSON payloads.                                                   *)
(* The database schema is the catalog's view of the tables: initDatabase   *)
(* validates it, runs the initial migration and validates it again.        *)
(***************************************************************************)
EXTENDS Integers, Sequences, FiniteSets, TLC

VARIABLES
    store,      \* the ads table: rows in storage order
    nextID,     \* the SERIAL sequence behind ads.id
    cache,      \* redis: key -> stored JSON payload
    cachedAt,   \* history: key -> store version its payload was read at
    version,    \* history: number of committed store mutations
    invalidated,\* history: highest version whose invalidation call succeeded
    proc,       \* one record per request context (its position and locals)
    qfilter,    \* repository harness: the FilterRequest under test
    qresp,      \* repository harness: the response to qfilter
    qprev,      \* repository harness: the response to the previous page
    qphase,     \* repository harness: "init", "page1", "page2"
    redisClient,\* main: TRUE when initRedis returned a client, FALSE when nil
    request,    \* HTTP server: the request handled last
    reply,      \* HTTP server: the reply to it
    calls,      \* HTTP server: the store and cache calls made while handling it
    database,   \* postgres: table name -> its columns and indexes
    boot        \* main: the position of initDatabase and its error

vars == <<store, nextID, cache, cachedAt, version, invalidated, proc,
          qfilter, qresp, qprev, qphase, redisClient, request, reply, calls,
          database, boot>>

svcVars == <<store, nextID, cache, cachedAt, version, invalidated, proc>>
harnessVars == <<qfilter, qresp, qprev, qphase>>
apiVars == <<redisClient, request, reply, calls>>
bootVars == <<database, boot>>

-----------------------------------------------------------------------------
(* Bounds *)

MaxRows == 3        \* rows ever inserted into the ads table
MaxWrites == 2      \* store mutations in one run of the service

-----------------------------------------------------------------------------
(* Program constants *)

DefaultPageSize == 20
StatusDraft == 0
StatusActive == 3
StatusDuplicate == 8

CurrencyUSD == "840"

-----------------------------------------------------------------------------
(* Values *)

Range(s) == {s[i] : i \in 1..Len(s)}

Min(a, b) == IF a < b THEN a ELSE b

\* *Price: nil, or a value with its currency
NoPrice == [has |-> FALSE, value |-> 0, currency |-> ""]
Price(v, c) == [has |-> TRUE, value |-> v, currency |-> c]

\* *float64 / *AdStatus: an optional number
Unset == [set |-> FALSE, v |-> 0]
Some(n) == [set |-> TRUE, v |-> n]

\* MultiLangArray of one entry
Text(lang, text) == <<[Lang |-> lang, Text |-> text]>>

\* domain.Ad as a request body carries it (id and timestamps are the server's)
AdBike == [Title |-> Text(2, "bike"), Description |-> <<>>,
           Attributes |-> {<<"color", "red">>}, CategoryIDs |-> <<5, 6>>,
           Status |-> StatusActive, Price |-> Price(100, CurrencyUSD)]
AdCar == [Title |-> Text(2, "car"), Description |-> <<>>,
          Attributes |-> {}, CategoryIDs |-> <<7>>,
          Status |-> StatusDraft, Price |-> Price(50, CurrencyUSD)]
AdFree == [Title |-> Text(1, "car"), Description |-> Text(2, "free"),
           Attributes |-> {<<"color", "blue">>}, CategoryIDs |-> <<>>,
           Status |-> StatusActive, Price |-> NoPrice]

AdInputs == {AdBike, AdCar, AdFree}

\* domain.FilterRequest
Filter(cats, props, q, sort, token, size, lang, min, max, cur, status, pfs) ==
    [CategoryIDs |-> cats, Properties |-> props, TextSearch |-> q,
     SortBy |-> sort, PageToken |-> token, PageSize |-> size, Lang |-> lang,
     MinPrice |-> min, MaxPrice |-> max, Currency |-> cur, Status |-> status,
     PropertyFilters |-> pfs]

-----------------------------------------------------------------------------
(* Repository: the ads table *)

\* buildSearchVector: the title texts, then the description texts
buildSearchVector(ad) ==
    {ad.Title[i].Text : i \in 1..Len(ad.Title)}
        \cup {ad.Description[i].Text : i \in 1..Len(ad.Description)}

\* The row Create inserts: id from the sequence, created_at by default
NewRow(ad, id) ==
    [ID |-> id, Title |-> ad.Title, Description |-> ad.Description,
     Attributes |-> ad.Attributes, CategoryIDs |-> ad.CategoryIDs,
     Status |-> ad.Status, Price |-> ad.Price,
     SearchVector |-> buildSearchVector(ad), CreatedAt |-> id]

\* The row Update leaves: every column but id and created_at replaced
UpdatedRow(row, ad) ==
    [ID |-> row.ID, Title |-> ad.Title, Description |-> ad.Description,
     Attributes |-> ad.Attributes, CategoryIDs |-> ad.CategoryIDs,
     Status |-> ad.Status, Price |-> ad.Price,
     SearchVector |-> buildSearchVector(ad), CreatedAt |-> row.CreatedAt]

RepoCreate(rows, ad, id) == Append(rows, NewRow(ad, id))

RepoUpdate(rows, ad, id) ==
    [i \in 1..Len(rows) |->
        IF rows[i].ID = id THEN UpdatedRow(rows[i], ad) ELSE rows[i]]

RepoDelete(rows, id) == SelectSeq(rows, LAMBDA r : r.ID # id)

-----------------------------------------------------------------------------
(* Repository: FindWithFilter *)

\* A category predicate that asks for every requested category (@> for &&)
CategoryContains(row, f) ==
    Range(f.CategoryIDs) \subseteq Range(row.CategoryIDs)

\* category_ids && ?
CategoryOverlap(row, f) ==
    Range(row.CategoryIDs) \cap Range(f.CategoryIDs) # {}

WhereCategory(row, f) ==
    Len(f.CategoryIDs) > 0 => CategoryOverlap(row, f)

\* search_vector @@ plainto_tsquery(?)
WhereText(row, f) ==
    f.TextSearch # "" => f.TextSearch \in row.SearchVector

\* status = ?
WhereStatus(row, f) ==
    f.Status.set => row.Status = f.Status.v

\* attributes->>'prop' IN (values), for each prop with values
WhereProperties(row, f) ==
    \A p \in f.Properties :
        Len(p[2]) > 0 =>
            \E a \in row.Attributes : a[1] = p[1] /\ a[2] \in Range(p[2])

\* price->>'currency' = ?, (price->>'value')::float >= ?, <= ?
WherePrice(row, f) ==
    /\ f.Currency # "" => (row.Price.has /\ row.Price.currency = f.Currency)
    /\ f.MinPrice.set => (row.Price.has /\ row.Price.value >= f.MinPrice.v)
    /\ f.MaxPrice.set => (row.Price.has /\ row.Price.value <= f.MaxPrice.v)

Matches(row, f) ==
    /\ WhereCategory(row, f)
    /\ WhereText(row, f)
    /\ WhereStatus(row, f)
    /\ WhereProperties(row, f)
    /\ WherePrice(row, f)

\* An ORDER BY whose descending price sort leaves out NULLS LAST
SortsBeforeNullsFirst(a, b, sortBy) ==
    CASE sortBy = "price_asc" ->
            \/ a.Price.has /\ ~b.Price.has
            \/ a.Price.has /\ b.Price.has /\ a.Price.value < b.Price.value
      [] sortBy = "price_desc" ->
            \/ ~a.Price.has /\ b.Price.has
            \/ a.Price.has /\ b.Price.has /\ a.Price.value > b.Price.value
      [] OTHER -> a.CreatedAt > b.CreatedAt

\* ORDER BY: does a sort strictly before b
SortsBefore(a, b, sortBy) ==
    CASE sortBy = "price_asc" ->
            \/ a.Price.has /\ ~b.Price.has
            \/ a.Price.has /\ b.Price.has /\ a.Price.value < b.Price.value
      [] sortBy = "price_desc" ->
            \/ a.Price.has /\ ~b.Price.has
            \/ a.Price.has /\ b.Price.has /\ a.Price.value > b.Price.value
      [] OTHER -> a.CreatedAt > b.CreatedAt

\* The rows in sort order; rows the sort key ties keep their storage order
OrderBy(rows, sortBy) ==
    LET n == Len(rows)
        Before(i, j) ==
            \/ SortsBefore(rows[i], rows[j], sortBy)
            \/ ~SortsBefore(rows[j], rows[i], sortBy) /\ i < j
        Rank(i) == 1 + Cardinality({j \in 1..n : Before(j, i)})
    IN  [r \in 1..n |-> rows[CHOOSE i \in 1..n : Rank(i) = r]]

\* LIMIT n
Limit(rows, n) ==
    IF n < 0 THEN rows ELSE SubSeq(rows, 1, Min(n, Len(rows)))

\* Count(&totalCount): the predicates, without the pagination clauses
CountMatching(rows, f) == Len(SelectSeq(rows, LAMBDA r : Matches(r, f)))

\* pageSize: the requested size, or the default when it is zero
EffectivePageSize(f) == IF f.PageSize = 0 THEN DefaultPageSize ELSE f.PageSize

\* db.First(&lastAd, "id = ?", token): the ids the token names
TokenIDs(rows, token) == {r.ID : r \in {x \in Range(rows) : ToString(x.ID) = token}}

OkResponse(items, next, total) ==
    [outcome |-> "ok", Items |-> items, NextPage |-> next, TotalCount |-> total]
ErrResponse(what) ==
    [outcome |-> what, Items |-> <<>>, NextPage |-> "", TotalCount |-> 0]
NoResponse == ErrResponse("none")

\* A page fetch that asks for pageSize rows, without the look-ahead row
FindPageNoLookAhead(rows, f, totalCount) ==
    LET matched == SelectSeq(rows, LAMBDA r : Matches(r, f))
        ordered == OrderBy(matched, f.SortBy)
        pageSize == EffectivePageSize(f)
        ids == TokenIDs(rows, f.PageToken)
    IN  IF f.PageToken # "" /\ ids = {}
        THEN ErrResponse("error")
        ELSE LET paged == IF f.PageToken = "" THEN ordered
                          ELSE LET lastID == CHOOSE i \in ids : TRUE
                               IN  SelectSeq(ordered, LAMBDA r : r.ID > lastID)
                 ads == Limit(paged, pageSize)
             IN  IF Len(ads) > pageSize
                 THEN IF pageSize < 0
                      THEN ErrResponse("panic")
                      ELSE OkResponse(SubSeq(ads, 1, pageSize),
                                      ToString(ads[pageSize].ID), totalCount)
                 ELSE OkResponse(ads, "", totalCount)

\* FindWithFilter from "Apply pagination" on, given the count query's answer
FindPage(rows, f, totalCount) ==
    LET matched == SelectSeq(rows, LAMBDA r : Matches(r, f))
        ordered == OrderBy(matched, f.SortBy)
        pageSize == EffectivePageSize(f)
        ids == TokenIDs(rows, f.PageToken)
    IN  IF f.PageToken # "" /\ ids = {}
        THEN ErrResponse("error")
        ELSE LET paged == IF f.PageToken = "" THEN ordered
                          ELSE LET lastID == CHOOSE i \in ids : TRUE
                               IN  SelectSeq(ordered, LAMBDA r : r.ID > lastID)
                 ads == Limit(paged, pageSize + 1)
             IN  IF Len(ads) > pageSize
                 THEN IF pageSize < 0
                      THEN ErrResponse("panic")
                      ELSE OkResponse(SubSeq(ads, 1, pageSize),
                                      ToString(ads[pageSize].ID), totalCount)
                 ELSE OkResponse(ads, "", totalCount)

FindWithFilter(rows, f) == FindPage(rows, f, CountMatching(rows, f))

-----------------------------------------------------------------------------
(* Use case: the cache key *)

RECURSIVE JoinInts(_)
JoinInts(s) ==
    IF Len(s) = 0 THEN ""
    ELSE IF Len(s) = 1 THEN ToString(s[1])
    ELSE ToString(s[1]) \o " " \o JoinInts(Tail(s))

RECURSIVE JoinStrings(_)
JoinStrings(s) ==
    IF Len(s) = 0 THEN ""
    ELSE IF Len(s) = 1 THEN s[1]
    ELSE s[1] \o " " \o JoinStrings(Tail(s))

\* %v of a []int and of a []string
FormatInts(s) == "[" \o JoinInts(s) \o "]"
FormatStrings(s) == "[" \o JoinStrings(s) \o "]"

RECURSIVE FormatPropertyFilters(_)
FormatPropertyFilters(pfs) ==
    IF Len(pfs) = 0 THEN ""
    ELSE ":" \o ToString(pfs[1].PropertyID) \o "=" \o FormatStrings(pfs[1].Values)
             \o FormatPropertyFilters(Tail(pfs))

buildCacheKey(f) ==
    "ads:filter:" \o FormatInts(f.CategoryIDs) \o ":" \o f.TextSearch
        \o ":" \o f.SortBy \o ":" \o f.PageToken \o ":" \o ToString(f.PageSize)
        \o FormatPropertyFilters(f.PropertyFilters)

-----------------------------------------------------------------------------
(* Use case: the cached payload *)

\* json.Marshal of an Ad: every field but the search vector (json:"-")
AdJSON(row) ==
    [id |-> row.ID, title_multi |-> row.Title, body_multi |-> row.Description,
     attributes |-> row.Attributes, category_ids |-> row.CategoryIDs,
     status |-> row.Status, price |-> row.Price, created_at |-> row.CreatedAt]

\* json.Marshal(response)
Marshal(resp) ==
    [items |-> [i \in 1..Len(resp.Items) |-> AdJSON(resp.Items[i])],
     next_page |-> resp.NextPage, total_count |-> resp.TotalCount]

\* Price.UnmarshalJSON reads the currency as a json.Number: a quoted currency
\* that is no number literal (the empty string) fails the whole decode
Decodable(payload) ==
    \A i \in 1..Len(payload.items) :
        payload.items[i].price.has => payload.items[i].price.currency # ""

\* json.Unmarshal(cachedData, &response): the search vector is left empty
Unmarshal(payload) ==
    OkResponse([i \in 1..Len(payload.items) |->
                    [ID |-> payload.items[i].id,
                     Title |-> payload.items[i].title_multi,
                     Description |-> payload.items[i].body_multi,
                     Attributes |-> payload.items[i].attributes,
                     CategoryIDs |-> payload.items[i].category_ids,
                     Status |-> payload.items[i].status,
                     Price |-> payload.items[i].price,
                     SearchVector |-> {},
                     CreatedAt |-> payload.items[i].created_at]],
               payload.next_page, payload.total_count)

-----------------------------------------------------------------------------
(* Cache: the redis key space *)

EmptyCache == [k \in {} |-> 0]

\* SET key value EX ttl
CacheSet(c, key, value) ==
    [k \in DOMAIN c \cup {key} |-> IF k = key THEN value ELSE c[k]]

\* DEL key: the key named, taken literally
CacheDel(c, key) == [k \in DOMAIN c \ {key} |-> c[k]]

-----------------------------------------------------------------------------
(* Use case: GetAds, CreateAd, UpdateAd, DeleteAd, one step per store or
   cache call *)

\* Request contexts: one that reads and one that writes, running concurrently
Readers == {"reader"}
Writers == {"writer"}
Procs == Readers \cup Writers

BaseFilter == Filter(<<>>, {}, "", "", "", 0, "en", Unset, Unset, "", Unset, <<>>)

\* The filter the service is asked for: every ad, newest first
ServiceFilters == {BaseFilter}

\* The ads the service is asked to create or to update to
ServiceAds == {AdBike, AdCar}

NoBody == Marshal(NoResponse)

NoResult ==
    [op |-> "none", filter |-> BaseFilter, outcome |-> "none", body |-> NoBody,
     fromCache |-> FALSE, staleHit |-> FALSE, startV |-> 0, quiet |-> FALSE,
     repeats |-> FALSE, same |-> FALSE]

IdleProc ==
    [pc |-> "idle", filter |-> BaseFilter, total |-> 0, resp |-> NoResponse,
     readAt |-> 0, startV |-> 0, quiet |-> FALSE, wroteV |-> 0,
     result |-> NoResult]

\* No create, update or delete is under way
NoWriteUnderWay == \A w \in Writers : proc[w].pc = "idle"

Max(a, b) == IF a > b THEN a ELSE b

\* What a GetAds call of context p leaves behind when it returns. It repeats
\* the context's previous call when that was a GetAds of the same filter that
\* started with no write under way, and no write has committed since
GetAdsResult(p, f, outcome, body, fromCache, staleHit, startV, quiet) ==
    LET prev == proc[p].result
        repeats == /\ prev.op = "GetAds"
                   /\ prev.outcome = "ok"
                   /\ prev.filter = f
                   /\ prev.quiet
                   /\ prev.startV = version
    IN  [op |-> "GetAds", filter |-> f, outcome |-> outcome, body |-> body,
         fromCache |-> fromCache, staleHit |-> staleHit, startV |-> startV,
         quiet |-> quiet,
         repeats |-> outcome = "ok" /\ repeats,
         same |-> outcome = "ok" /\ repeats /\ body = prev.body]

MutationResult(op, outcome) ==
    [NoResult EXCEPT !.op = op, !.outcome = outcome]

Return(p, result) == [IdleProc EXCEPT !.result = result]

\* GetAds: the cache holds a decodable payload under the key
GetAdsHit(p, f) ==
    LET key == buildCacheKey(f)
    IN  /\ proc[p].pc = "idle"
        /\ key \in DOMAIN cache
        /\ Decodable(cache[key])
        /\ proc' = [proc EXCEPT ![p] =
                Return(p, GetAdsResult(p, f, "ok", Marshal(Unmarshal(cache[key])),
                                       TRUE, cachedAt[key] < invalidated, version,
                                       NoWriteUnderWay))]
        /\ UNCHANGED <<store, nextID, cache, cachedAt, version, invalidated>>
        /\ UNCHANGED harnessVars
        /\ UNCHANGED bootVars
        /\ UNCHANGED apiVars

\* GetAds: the cache get fails, finds nothing, or finds what does not decode
GetAdsMiss(p, f) ==
    LET key == buildCacheKey(f)
    IN  /\ proc[p].pc = "idle"
        /\ \E getFails \in BOOLEAN :
                \/ getFails
                \/ key \notin DOMAIN cache
                \/ (key \in DOMAIN cache /\ ~Decodable(cache[key]))
        /\ proc' = [proc EXCEPT ![p].pc = "count", ![p].filter = f,
                                ![p].startV = version,
                                ![p].quiet = NoWriteUnderWay]
        /\ UNCHANGED <<store, nextID, cache, cachedAt, version, invalidated>>
        /\ UNCHANGED harnessVars
        /\ UNCHANGED bootVars
        /\ UNCHANGED apiVars

\* FindWithFilter: the count query
GetAdsCount(p) ==
    /\ proc[p].pc = "count"
    /\ \E storeFails \in BOOLEAN :
        proc' = [proc EXCEPT ![p] =
            IF storeFails
            THEN Return(p, GetAdsResult(p, proc[p].filter, "error", NoBody,
                                        FALSE, FALSE, proc[p].startV,
                                        proc[p].quiet))
            ELSE [proc[p] EXCEPT !.pc = "find",
                                 !.total = CountMatching(store, proc[p].filter),
                                 !.readAt = version]]
    /\ UNCHANGED <<store, nextID, cache, cachedAt, version, invalidated>>
    /\ UNCHANGED harnessVars
    /\ UNCHANGED bootVars
    /\ UNCHANGED apiVars

\* FindWithFilter: the page token's lookup and the page fetch
GetAdsFind(p) ==
    /\ proc[p].pc = "find"
    /\ \E storeFails \in BOOLEAN :
        LET resp == FindPage(store, proc[p].filter, proc[p].total)
        IN  proc' = [proc EXCEPT ![p] =
                IF storeFails \/ resp.outcome # "ok"
                THEN Return(p, GetAdsResult(p, proc[p].filter,
                                IF storeFails THEN "error" ELSE resp.outcome,
                                NoBody, FALSE, FALSE, proc[p].startV,
                                proc[p].quiet))
                ELSE [proc[p] EXCEPT !.pc = "set", !.resp = resp]]
    /\ UNCHANGED <<store, nextID, cache, cachedAt, version, invalidated>>
    /\ UNCHANGED harnessVars
    /\ UNCHANGED bootVars
    /\ UNCHANGED apiVars

\* GetAds: cache the result for five minutes, best effort, and return it
GetAdsSet(p) ==
    LET key == buildCacheKey(proc[p].filter)
        payload == Marshal(proc[p].resp)
    IN  /\ proc[p].pc = "set"
        /\ \E setFails \in BOOLEAN :
            /\ cache' = IF setFails THEN cache ELSE CacheSet(cache, key, payload)
            /\ cachedAt' = IF setFails THEN cachedAt
                           ELSE CacheSet(cachedAt, key, proc[p].readAt)
        /\ proc' = [proc EXCEPT ![p] =
                Return(p, GetAdsResult(p, proc[p].filter, "ok", payload,
                                       FALSE, FALSE, proc[p].startV,
                                       proc[p].quiet))]
        /\ UNCHANGED <<store, nextID, version, invalidated>>
        /\ UNCHANGED harnessVars
        /\ UNCHANGED bootVars
        /\ UNCHANGED apiVars

\* The store mutation of a write committed: the invalidation is next
Committed(p, op, rows) ==
    /\ store' = rows
    /\ version' = version + 1
    /\ proc' = [proc EXCEPT ![p].pc = "invalidate", ![p].wroteV = version',
                            ![p].result = MutationResult(op, "none")]
    /\ UNCHANGED <<cache, cachedAt, invalidated>>
    /\ UNCHANGED harnessVars
    /\ UNCHANGED bootVars
    /\ UNCHANGED apiVars

CreateAd(p, ad) ==
    /\ proc[p].pc = "idle"
    /\ version < MaxWrites
    /\ nextID <= MaxRows
    /\ nextID' = nextID + 1
    /\ Committed(p, "CreateAd", RepoCreate(store, ad, nextID))

UpdateAd(p, id, ad) ==
    /\ proc[p].pc = "idle"
    /\ version < MaxWrites
    /\ UNCHANGED nextID
    /\ Committed(p, "UpdateAd", RepoUpdate(store, ad, id))

DeleteAd(p, id) ==
    /\ proc[p].pc = "idle"
    /\ version < MaxWrites
    /\ UNCHANGED nextID
    /\ Committed(p, "DeleteAd", RepoDelete(store, id))

\* The store mutation fails: the error is returned, nothing else is done
MutationFails(p, op) ==
    /\ proc[p].pc = "idle"
    /\ proc' = [proc EXCEPT ![p] = Return(p, MutationResult(op, "error"))]
    /\ UNCHANGED <<store, nextID, cache, cachedAt, version, invalidated>>
    /\ UNCHANGED harnessVars
    /\ UNCHANGED bootVars
    /\ UNCHANGED apiVars

\* uc.cache.Del(ctx, "ads:*"), its error ignored, then return nil
Invalidate(p) ==
    /\ proc[p].pc = "invalidate"
    /\ \E delFails \in BOOLEAN :
        /\ cache' = IF delFails THEN cache ELSE CacheDel(cache, "ads:*")
        /\ cachedAt' = IF delFails THEN cachedAt ELSE CacheDel(cachedAt, "ads:*")
        /\ invalidated' = IF delFails THEN invalidated
                          ELSE Max(invalidated, proc[p].wroteV)
    /\ proc' = [proc EXCEPT ![p] =
            Return(p, MutationResult(proc[p].result.op, "ok"))]
    /\ UNCHANGED <<store, nextID, version>>
    /\ UNCHANGED harnessVars
    /\ UNCHANGED bootVars
    /\ UNCHANGED apiVars

\* The five minutes of an entry are over
Expire(key) ==
    /\ key \in DOMAIN cache
    /\ cache' = CacheDel(cache, key)
    /\ cachedAt' = CacheDel(cachedAt, key)
    /\ UNCHANGED <<store, nextID, version, invalidated, proc>>
    /\ UNCHANGED harnessVars
    /\ UNCHANGED bootVars
    /\ UNCHANGED apiVars

-----------------------------------------------------------------------------
(* Database schema: what the initial migration creates, as the catalog
   reports it, and what ValidateSchema expects. Catalog texts that the code
   searches are sequences of characters *)

HasPrefix(s, prefix) ==
    Len(prefix) <= Len(s) /\ SubSeq(s, 1, Len(prefix)) = prefix

\* strings.Contains
Contains(s, substr) ==
    \E i \in 0..(Len(s) - Len(substr)) : SubSeq(s, i + 1, i + Len(substr)) = substr

\* *string: nil, or the text
NoDefault == [null |-> TRUE, text |-> <<>>]
strPtr(s) == [null |-> FALSE, text |-> s]

DefaultZero == <<"0">>
DefaultCurrentTimestamp ==
    <<"C", "U", "R", "R", "E", "N", "T", "_",
      "T", "I", "M", "E", "S", "T", "A", "M", "P">>
\* column_default of DEFAULT 'active' on a VARCHAR column
DefaultActive ==
    <<"'", "a", "c", "t", "i", "v", "e", "'", ":", ":", "c", "h", "a", "r",
      "a", "c", "t", "e", "r", " ", "v", "a", "r", "y", "i", "n", "g">>
\* column_default of a SERIAL column
DefaultNextval ==
    <<"n", "e", "x", "t", "v", "a", "l", "(", "'", "a", "d", "s", "_", "i",
      "d", "_", "s", "e", "q", "'", ":", ":", "r", "e", "g", "c", "l", "a",
      "s", "s", ")">>
LikeNextval == <<"n", "e", "x", "t", "v", "a", "l">>

ColumnInfo(name, dataType, isNullable, columnDefault, isSerial) ==
    [Name |-> name, DataType |-> dataType, IsNullable |-> isNullable,
     ColumnDefault |-> columnDefault, IsSerial |-> isSerial]

\* information_schema.columns.data_type of a declared column type
CatalogType(declared) ==
    CASE declared \in {"SERIAL", "INTEGER"} -> "integer"
      [] declared = "JSONB" -> "jsonb"
      [] declared = "INTEGER[]" -> "ARRAY"
      [] declared = "VARCHAR(50)" -> "character varying"
      [] declared = "DECIMAL(15,2)" -> "numeric"
      [] declared = "tsvector" -> "tsvector"
      [] declared = "TIMESTAMP WITH TIME ZONE" -> "timestamp with time zone"

\* The row getTableColumns reads for a column declared as
\* "name declared [NOT NULL] [DEFAULT ...]"; key columns are NOT NULL
Declared(name, declared, notNull, default) ==
    LET reported == IF declared = "SERIAL" THEN strPtr(DefaultNextval)
                    ELSE default
    IN  ColumnInfo(name, CatalogType(declared),
                   IF notNull \/ declared = "SERIAL" THEN "NO" ELSE "YES",
                   reported,
                   ~reported.null /\ HasPrefix(reported.text, LikeNextval))

TableInfo(columns, indexes) == [Columns |-> columns, Indexes |-> indexes]

\* CREATE TABLE ads of 001_initial_schema.sql and its indexes
InitialAds ==
    TableInfo(
        << Declared("id", "SERIAL", TRUE, NoDefault),
           Declared("title", "JSONB", TRUE, NoDefault),
           Declared("description", "JSONB", FALSE, NoDefault),
           Declared("properties", "JSONB", FALSE, NoDefault),
           Declared("category_ids", "INTEGER[]", FALSE, NoDefault),
           Declared("status", "VARCHAR(50)", TRUE, strPtr(DefaultActive)),
           Declared("price", "DECIMAL(15,2)", FALSE, NoDefault),
           Declared("search_vector", "tsvector", FALSE, NoDefault),
           Declared("created_at", "TIMESTAMP WITH TIME ZONE", FALSE,
                    strPtr(DefaultCurrentTimestamp)),
           Declared("updated_at", "TIMESTAMP WITH TIME ZONE", FALSE,
                    strPtr(DefaultCurrentTimestamp)) >>,
        {"ads_pkey", "idx_ads_status", "idx_ads_category_ids",
         "idx_ads_search_vector", "idx_ads_title", "idx_ads_properties",
         "idx_ads_price", "idx_ads_created_at"})

\* CREATE TABLE category_closure of 001_initial_schema.sql and its indexes
InitialCategoryClosure ==
    TableInfo(
        << Declared("ancestor_id", "INTEGER", TRUE, NoDefault),
           Declared("descendant_id", "INTEGER", TRUE, NoDefault),
           Declared("depth", "INTEGER", TRUE, NoDefault) >>,
        {"category_closure_pkey", "idx_category_closure_ancestor",
         "idx_category_closure_descendant"})

\* expectedTables of ValidateSchema
ExpectedTables ==
    [t \in {"ads", "category_closure"} |->
        IF t = "ads"
        THEN TableInfo(
                << ColumnInfo("id", "integer", "NO", NoDefault, TRUE),
                   ColumnInfo("title", "jsonb", "NO", NoDefault, FALSE),
                   ColumnInfo("description", "jsonb", "YES", NoDefault, FALSE),
                   ColumnInfo("properties", "jsonb", "YES", NoDefault, FALSE),
                   ColumnInfo("category_ids", "ARRAY", "YES", NoDefault, FALSE),
                   ColumnInfo("status", "integer", "NO", strPtr(DefaultZero), FALSE),
                   ColumnInfo("price", "jsonb", "YES", NoDefault, FALSE),
                   ColumnInfo("search_vector", "tsvector", "YES", NoDefault, FALSE),
                   ColumnInfo("created_at", "timestamp with time zone", "YES",
                              strPtr(DefaultCurrentTimestamp), FALSE),
                   ColumnInfo("updated_at", "timestamp with time zone", "YES",
                              strPtr(DefaultCurrentTimestamp), FALSE) >>,
                {"ads_pkey", "idx_ads_status", "idx_ads_category_ids",
                 "idx_ads_search_vector", "idx_ads_title", "idx_ads_properties",
                 "idx_ads_price", "idx_ads_created_at"})
        ELSE TableInfo(
                << ColumnInfo("ancestor_id", "integer", "NO", NoDefault, FALSE),
                   ColumnInfo("descendant_id", "integer", "NO", NoDefault, FALSE),
                   ColumnInfo("depth", "integer", "NO", NoDefault, FALSE) >>,
                {"category_closure_pkey", "idx_category_closure_ancestor",
                 "idx_category_closure_descendant"})]

\* strings.ToUpper on the type names of the catalog
ToUpper(s) ==
    CASE s = "integer" -> "INTEGER"
      [] s = "jsonb" -> "JSONB"
      [] s = "character varying" -> "CHARACTER VARYING"
      [] s = "numeric" -> "NUMERIC"
      [] s = "tsvector" -> "TSVECTOR"
      [] s = "timestamp with time zone" -> "TIMESTAMP WITH TIME ZONE"
      [] OTHER -> s

normalizeDataType(dataType) ==
    LET upper == ToUpper(dataType)
    IN  CASE upper = "ARRAY" -> "ARRAY"
          [] upper \in {"JSONB", "JSON"} -> "JSONB"
          [] upper = "TSVECTOR" -> "TSVECTOR"
          [] upper \in {"CHARACTER VARYING", "VARCHAR"} -> "CHARACTER VARYING"
          [] upper \in {"INTEGER", "INT", "INT4"} -> "INTEGER"
          [] upper \in {"NUMERIC", "DECIMAL"} -> "NUMERIC"
          [] upper \in {"TIMESTAMP WITH TIME ZONE", "TIMESTAMPTZ"} ->
                "TIMESTAMP WITH TIME ZONE"
          [] OTHER -> upper

\* compareColumns: TRUE when it returns nil
compareColumns(expected, actual) ==
    /\ normalizeDataType(expected.DataType) = normalizeDataType(actual.DataType)
    /\ expected.IsNullable = actual.IsNullable
    /\ IF expected.IsSerial
       THEN actual.IsSerial
       ELSE ~ \/ expected.ColumnDefault.null /\ ~actual.ColumnDefault.null
              \/ ~expected.ColumnDefault.null /\ actual.ColumnDefault.null
              \/ /\ ~expected.ColumnDefault.null
                 /\ ~actual.ColumnDefault.null
                 /\ ~Contains(actual.ColumnDefault.text,
                              expected.ColumnDefault.text)

SchemaError(what, table, column) == [what |-> what, table |-> table, column |-> column]
NoError == SchemaError("", "", "")

ColumnNamed(columns, name) == {i \in 1..Len(columns) : columns[i].Name = name}

\* One round of ValidateSchema's loop: the first error found in a table
ValidateTable(db, t) ==
    IF t \notin DOMAIN db THEN SchemaError("does not exist", t, "")
    ELSE
    LET expected == ExpectedTables[t].Columns
        actual == db[t].Columns
        bad == {i \in 1..Len(expected) :
                    \/ ColumnNamed(actual, expected[i].Name) = {}
                    \/ \E j \in ColumnNamed(actual, expected[i].Name) :
                            /\ \A k \in ColumnNamed(actual, expected[i].Name) : j <= k
                            /\ ~compareColumns(expected[i], actual[j])}
        extra == {j \in 1..Len(actual) : ColumnNamed(expected, actual[j].Name) = {}}
        first(S) == CHOOSE i \in S : \A k \in S : i <= k
    IN  IF bad # {}
        THEN IF ColumnNamed(actual, expected[first(bad)].Name) = {}
             THEN SchemaError("missing column", t, expected[first(bad)].Name)
             ELSE SchemaError("column mismatch", t, expected[first(bad)].Name)
        ELSE IF extra # {}
        THEN SchemaError("extra column", t, actual[first(extra)].Name)
        ELSE IF ~(ExpectedTables[t].Indexes \subseteq db[t].Indexes)
        THEN SchemaError("missing index", t, "")
        ELSE NoError

\* ValidateSchema, the map ranged over in the given order
ValidateSchema(db, order) ==
    LET failing == {i \in 1..Len(order) : ValidateTable(db, order[i]) # NoError}
    IN  IF failing = {} THEN NoError
        ELSE ValidateTable(db, order[CHOOSE i \in failing : \A k \in failing : i <= k])

\* The orders in which a range over expectedTables can visit its keys
TableOrders == {<<"ads", "category_closure">>, <<"category_closure", "ads">>}

\* strings.Contains(err.Error(), "does not exist")
IsNotExist(err) == err.what = "does not exist"

EmptyDatabase == [t \in {} |-> TableInfo(<<>>, {})]

\* gormDB.Exec of 001_initial_schema.sql: its statements in one implicit
\* transaction; CREATE TABLE fails on a table that exists
Migration001(db) ==
    IF DOMAIN db \cap {"ads", "category_closure"} # {}
    THEN [ok |-> FALSE, db |-> db]
    ELSE [ok |-> TRUE,
          db |-> [t \in DOMAIN db \cup {"ads", "category_closure"} |->
                    IF t = "ads" THEN InitialAds
                    ELSE IF t = "category_closure" THEN InitialCategoryClosure
                    ELSE db[t]]]

\* The ads table after ALTER TABLE statements on top of the initial one:
\* status turned into INTEGER NOT NULL DEFAULT 0, price into JSONB, a
\* status_new INTEGER column added, the price index dropped
AdsTable(statusInteger, priceJSONB, statusNew, priceIndex) ==
    LET Altered(c) ==
            IF c.Name = "status" /\ statusInteger
            THEN Declared("status", "INTEGER", TRUE, strPtr(DefaultZero))
            ELSE IF c.Name = "price" /\ priceJSONB
            THEN Declared("price", "JSONB", FALSE, NoDefault)
            ELSE c
        columns == [i \in 1..Len(InitialAds.Columns) |-> Altered(InitialAds.Columns[i])]
    IN  TableInfo(IF statusNew
                  THEN Append(columns, Declared("status_new", "INTEGER", FALSE, NoDefault))
                  ELSE columns,
                  IF priceIndex THEN InitialAds.Indexes
                  ELSE InitialAds.Indexes \ {"idx_ads_price"})

Database(tables) ==
    [t \in {x[1] : x \in tables} |-> (CHOOSE x \in tables : x[1] = t)[2]]

\* A database that ValidateSchema accepts
ServingDatabase ==
    Database({<<"ads", AdsTable(TRUE, TRUE, FALSE, TRUE)>>,
              <<"category_closure", InitialCategoryClosure>>})

\* The databases the server can find when it starts
StartDatabases ==
    {Database(ads \cup closure) :
        ads \in {{}} \cup {{<<"ads", AdsTable(s, p, n, x)>>} :
                            s \in BOOLEAN, p \in BOOLEAN, n \in BOOLEAN, x \in BOOLEAN},
        closure \in {{}, {<<"category_closure", InitialCategoryClosure>>}}}

\* initDatabase: where it stands, whether the database existed when it
\* started, whether the migration has been executed, and the error returned
Boot(pc, exists, migrated, err, cause) ==
    [pc |-> pc, exists |-> exists, migrated |-> migrated, err |-> err,
     cause |-> cause]

\* initDatabase has returned the handle and main serves requests
Serving == Boot("serving", TRUE, FALSE, "", NoError)

\* sql.Open and Ping; CREATE DATABASE when the database is missing
OpenDatabase ==
    /\ boot.pc = "open"
    /\ \E createFails \in BOOLEAN :
        boot' = IF ~boot.exists /\ createFails
                THEN [boot EXCEPT !.pc = "failed", !.err = "error creating database"]
                ELSE [boot EXCEPT !.pc = "validate"]
    /\ UNCHANGED database
    /\ UNCHANGED <<svcVars, harnessVars, apiVars>>

\* The first ValidateSchema and the choice it leads to
ValidateFirst ==
    /\ boot.pc = "validate"
    /\ \E order \in TableOrders :
        LET err == ValidateSchema(database, order)
        IN  boot' = IF err = NoError THEN [boot EXCEPT !.pc = "serving"]
                    ELSE IF IsNotExist(err)
                    THEN [boot EXCEPT !.pc = "migrate", !.cause = err]
                    ELSE [boot EXCEPT !.pc = "failed", !.cause = err,
                                      !.err = "schema validation failed"]
    /\ UNCHANGED database
    /\ UNCHANGED <<svcVars, harnessVars, apiVars>>

\* ioutil.ReadFile of the migration and gormDB.Exec of its text
RunMigration ==
    /\ boot.pc = "migrate"
    /\ \E readFails \in BOOLEAN, execFails \in BOOLEAN :
        LET run == Migration001(database)
        IN  IF readFails
            THEN /\ boot' = [boot EXCEPT !.pc = "failed",
                                         !.err = "error reading migration file"]
                 /\ UNCHANGED database
            ELSE IF execFails \/ ~run.ok
            THEN /\ boot' = [boot EXCEPT !.pc = "failed",
                                         !.err = "error running migrations"]
                 /\ UNCHANGED database
            ELSE /\ boot' = [boot EXCEPT !.pc = "revalidate", !.migrated = TRUE]
                 /\ database' = run.db
    /\ UNCHANGED <<svcVars, harnessVars, apiVars>>

\* The second ValidateSchema, after the migration
ValidateAgain ==
    /\ boot.pc = "revalidate"
    /\ \E order \in TableOrders :
        LET err == ValidateSchema(database, order)
        IN  boot' = IF err = NoError
                    THEN [boot EXCEPT !.pc = "serving", !.cause = NoError]
                    ELSE [boot EXCEPT !.pc = "failed", !.cause = err,
                            !.err = "schema validation failed after migration"]
    /\ UNCHANGED database
    /\ UNCHANGED <<svcVars, harnessVars, apiVars>>

-----------------------------------------------------------------------------
(* HTTP server: requests and replies *)

\* net/http status codes the handlers answer with
StatusOK == 200
StatusCreated == 201
StatusNoContent == 204
StatusBadRequest == 400
StatusInternalServerError == 500

\* A JSON price object: its value and its currency member, which is absent,
\* a number literal or a quoted string (the literal's characters in text)
PriceJSON(v, kind, text) ==
    [present |-> TRUE, value |-> v, currency |-> [kind |-> kind, text |-> text]]
NoPriceJSON ==
    [present |-> FALSE, value |-> 0, currency |-> [kind |-> "absent", text |-> <<>>]]

\* A JSON request body for domain.Ad; wellFormed is FALSE for what is no JSON
\* object at all. With no "id" member the id is 0
BodyJSON(wellFormed, title, cats, status, price) ==
    [wellFormed |-> wellFormed, id |-> 0, title_multi |-> title,
     body_multi |-> <<>>, attributes |-> {}, category_ids |-> cats,
     status |-> status, price |-> price]
NoBodyJSON == BodyJSON(FALSE, <<>>, <<>>, [kind |-> "number", v |-> 0], NoPriceJSON)

\* What the server was asked: the handler, its path and query parameters, its
\* body, the calls that fail while it is handled, and what the cache held
\* under the filter's key when it arrived
NoRequest ==
    [handler |-> "none", filter |-> BaseFilter, id |-> <<>>, body |-> NoBodyJSON,
     getFails |-> FALSE, storeFails |-> FALSE, setFails |-> FALSE,
     delFails |-> FALSE, entry |-> "none"]

\* What the server answered: page for GetAds, ad for CreateAd and UpdateAd
NoAdJSON == [id |-> 0, status |-> 0, price |-> NoPrice, created_at |-> 0]
NoReply == [status |-> 0, page |-> NoBody, ad |-> NoAdJSON]

Init ==
    /\ store = <<>>
    /\ nextID = 1
    /\ cache = EmptyCache
    /\ cachedAt = EmptyCache
    /\ version = 0
    /\ invalidated = 0
    /\ proc = [p \in Procs |-> IdleProc]
    /\ qfilter = BaseFilter
    /\ qresp = NoResponse
    /\ qprev = [filter |-> BaseFilter, resp |-> NoResponse]
    /\ qphase = "off"
    /\ redisClient = TRUE
    /\ request = NoRequest
    /\ reply = NoReply
    /\ calls = <<>>
    /\ database = ServingDatabase
    /\ boot = Serving

Next ==
    \/ \E p \in Readers, f \in ServiceFilters : GetAdsHit(p, f)
    \/ \E p \in Readers, f \in ServiceFilters : GetAdsMiss(p, f)
    \/ \E p \in Readers : GetAdsCount(p)
    \/ \E p \in Readers : GetAdsFind(p)
    \/ \E p \in Readers : GetAdsSet(p)
    \/ \E p \in Writers, ad \in ServiceAds : CreateAd(p, ad)
    \/ \E p \in Writers, id \in 1..MaxRows, ad \in ServiceAds : UpdateAd(p, id, ad)
    \/ \E p \in Writers, id \in 1..MaxRows : DeleteAd(p, id)
    \/ \E p \in Writers, op \in {"CreateAd", "UpdateAd", "DeleteAd"} :
            MutationFails(p, op)
    \/ \E p \in Writers : Invalidate(p)
    \/ \E key \in DOMAIN cache : Expire(key)

Spec == Init /\ [][Next]_vars

-----------------------------------------------------------------------------
(* HTTP server: decoding what a request carries. Text that the code parses is
   a sequence of characters *)

Digits == <<"0", "1", "2", "3", "4", "5", "6", "7", "8", "9">>

IsDigit(c) == \E i \in 1..10 : Digits[i] = c
DigitValue(c) == (CHOOSE i \in 1..10 : Digits[i] = c) - 1
AllDigits(cs) == Len(cs) > 0 /\ \A i \in 1..Len(cs) : IsDigit(cs[i])

RECURSIVE DecimalValue(_)
DecimalValue(cs) ==
    IF Len(cs) = 0 THEN 0
    ELSE 10 * DecimalValue(SubSeq(cs, 1, Len(cs) - 1)) + DigitValue(cs[Len(cs)])

RECURSIVE Concat(_)
Concat(cs) == IF Len(cs) = 0 THEN "" ELSE cs[1] \o Concat(Tail(cs))

\* strconv.ParseUint(s, 10, 32): digits only, no sign, below 2^32 (texts of
\* up to nine digits are; no longer one is sent here)
ParseUint(cs) ==
    IF AllDigits(cs) /\ Len(cs) <= 9
    THEN [ok |-> TRUE, v |-> DecimalValue(cs)]
    ELSE [ok |-> FALSE, v |-> 0]

\* strconv.Atoi(s): an optional sign, then digits
Atoi(cs) ==
    LET signed == Len(cs) > 0 /\ cs[1] \in {"+", "-"}
        digits == IF signed THEN Tail(cs) ELSE cs
    IN  AllDigits(digits)

\* encoding/json's test of a number literal: an optional minus, an integer
\* part without a leading zero, an optional fraction (no text here carries an
\* exponent)
isValidNumber(cs) ==
    LET unsigned == IF Len(cs) > 0 /\ cs[1] = "-" THEN Tail(cs) ELSE cs
        dots == {i \in 1..Len(unsigned) : unsigned[i] = "."}
        int == IF dots = {} THEN unsigned
               ELSE SubSeq(unsigned, 1, (CHOOSE i \in dots : \A j \in dots : i <= j) - 1)
        frac == IF dots = {} THEN <<>>
                ELSE SubSeq(unsigned, Len(int) + 2, Len(unsigned))
    IN  /\ AllDigits(int)
        /\ (Len(int) > 1 => int[1] # "0")
        /\ (dots # {} => AllDigits(frac))

\* Price.UnmarshalJSON: the currency is decoded as a json.Number, then, when
\* it is not empty, required to be an integer
PriceUnmarshalJSON(json) ==
    LET cur == json.currency
        decodes == \/ cur.kind \in {"absent", "number"}
                   \/ cur.kind = "string" /\ isValidNumber(cur.text)
        number == IF cur.kind = "absent" THEN <<>> ELSE cur.text
    IN  IF ~decodes THEN [ok |-> FALSE, price |-> NoPrice]
        ELSE IF number # <<>> /\ ~Atoi(number) THEN [ok |-> FALSE, price |-> NoPrice]
        ELSE [ok |-> TRUE, price |-> Price(json.value, Concat(number))]

\* AdStatus.UnmarshalJSON: any JSON integer, converted to AdStatus
AdStatusUnmarshalJSON(json) ==
    IF json.kind = "number" THEN [ok |-> TRUE, status |-> json.v]
    ELSE [ok |-> FALSE, status |-> 0]

\* c.ShouldBindJSON(&ad): the domain.Ad the body decodes to; id and
\* timestamps are what the body carries, zero when it carries none
ShouldBindJSON(body) ==
    LET price == IF body.price.present THEN PriceUnmarshalJSON(body.price)
                 ELSE [ok |-> TRUE, price |-> NoPrice]
        status == AdStatusUnmarshalJSON(body.status)
    IN  [ok |-> body.wellFormed /\ price.ok /\ status.ok,
         ad |-> [ID |-> body.id, Title |-> body.title_multi,
                 Description |-> body.body_multi, Attributes |-> body.attributes,
                 CategoryIDs |-> body.category_ids, Status |-> status.status,
                 Price |-> price.price, CreatedAt |-> 0]]

\* A query binding that does not require lang
ShouldBindQueryLangOptional(f) == TRUE

\* c.ShouldBindQuery(&filter): lang is binding:"required"
ShouldBindQuery(f) == f.Lang # ""

-----------------------------------------------------------------------------
(* Use case, one call from start to finish: what it returns, what it leaves
   in the table and in the cache, and the store and cache calls it made *)

\* 5*time.Minute, in seconds
CacheTTL == 300

Call(name, key, ttl) == [call |-> name, key |-> key, ttl |-> ttl]

\* What cache.Get and json.Unmarshal find under a key
CacheEntry(c, key) ==
    IF key \notin DOMAIN c THEN "none"
    ELSE IF Decodable(c[key]) THEN "decodable" ELSE "undecodable"

\* A lookup that takes any payload for a hit, decodable or not
CacheHitAnyPayload(c, key, getFails) == ~getFails /\ key \in DOMAIN c

\* GetAds: cache.Get returned no error and its payload decoded
CacheHit(c, key, getFails) == ~getFails /\ CacheEntry(c, key) = "decodable"

\* A GetAds that asks the repository a second time when the first query fails
\* and caches what the second returns
GetAdsOnMissRetrying(c, rows, f, storeFails, setFails) ==
    LET key == buildCacheKey(f)
        found == FindWithFilter(rows, f)
        asked == <<Call("cache.Get", key, 0), Call("repo.FindWithFilter", "", 0)>>
        again == IF storeFails
                 THEN Append(asked, Call("repo.FindWithFilter", "", 0))
                 ELSE asked
    IN  IF found.outcome # "ok"
        THEN [outcome |-> found.outcome, resp |-> NoResponse, rows |-> rows,
              cache |-> c, calls |-> again]
        ELSE [outcome |-> "ok", resp |-> found, rows |-> rows,
              cache |-> IF setFails THEN c ELSE CacheSet(c, key, Marshal(found)),
              calls |-> Append(again, Call("cache.Set", key, CacheTTL))]

\* GetAds past the cache lookup: the repository query, its error returned as
\* it is, otherwise the result stored under the key and returned
GetAdsOnMiss(c, rows, f, storeFails, setFails) ==
    LET key == buildCacheKey(f)
        found == FindWithFilter(rows, f)
        asked == <<Call("cache.Get", key, 0), Call("repo.FindWithFilter", "", 0)>>
    IN  IF storeFails
        THEN [outcome |-> "error", resp |-> NoResponse, rows |-> rows,
              cache |-> c, calls |-> asked]
        ELSE IF found.outcome # "ok"
        THEN [outcome |-> found.outcome, resp |-> NoResponse, rows |-> rows,
              cache |-> c, calls |-> asked]
        ELSE [outcome |-> "ok", resp |-> found, rows |-> rows,
              cache |-> IF setFails THEN c ELSE CacheSet(c, key, Marshal(found)),
              calls |-> Append(asked, Call("cache.Set", key, CacheTTL))]

\* A GetAds that asks the repository although the lookup was a hit
GetAdsOnHitQuerying(c, rows, f) == GetAdsOnMiss(c, rows, f, FALSE, FALSE)

\* GetAds on a hit: the decoded payload is the response
GetAdsOnHit(c, rows, f) ==
    LET key == buildCacheKey(f)
    IN  [outcome |-> "ok", resp |-> Unmarshal(c[key]), rows |-> rows,
         cache |-> c, calls |-> <<Call("cache.Get", key, 0)>>]

\* AdUseCase.GetAds; a call on the nil client panics
UseCaseGetAds(c, rows, f, client, getFails, storeFails, setFails) ==
    IF ~client
    THEN [outcome |-> "panic", resp |-> NoResponse, rows |-> rows, cache |-> c,
          calls |-> <<Call("cache.Get", buildCacheKey(f), 0)>>]
    ELSE IF CacheHit(c, buildCacheKey(f), getFails)
    THEN GetAdsOnHit(c, rows, f)
    ELSE GetAdsOnMiss(c, rows, f, storeFails, setFails)

\* A mutation that invalidates whether or not the repository call failed
MutationAlwaysInvalidating(repoCall, c, rows, rowsAfter, client, storeFails, delFails) ==
    [outcome |-> IF storeFails THEN "error" ELSE IF client THEN "ok" ELSE "panic",
     resp |-> NoResponse,
     rows |-> IF storeFails THEN rows ELSE rowsAfter,
     cache |-> IF client /\ ~delFails THEN CacheDel(c, "ads:*") ELSE c,
     calls |-> <<Call(repoCall, "", 0), Call("cache.Del", "ads:*", 0)>>]

\* CreateAd, UpdateAd, DeleteAd: the repository call, its error returned as it
\* is; otherwise cache.Del("ads:*"), its error ignored
Mutation(repoCall, c, rows, rowsAfter, client, storeFails, delFails) ==
    IF storeFails
    THEN [outcome |-> "error", resp |-> NoResponse, rows |-> rows, cache |-> c,
          calls |-> <<Call(repoCall, "", 0)>>]
    ELSE [outcome |-> IF client THEN "ok" ELSE "panic", resp |-> NoResponse,
          rows |-> rowsAfter,
          cache |-> IF client /\ ~delFails THEN CacheDel(c, "ads:*") ELSE c,
          calls |-> <<Call(repoCall, "", 0), Call("cache.Del", "ads:*", 0)>>]

UseCaseCreateAd(c, rows, id, ad, client, storeFails, delFails) ==
    Mutation("repo.Create", c, rows, RepoCreate(rows, ad, id), client,
             storeFails, delFails)

UseCaseUpdateAd(c, rows, ad, client, storeFails, delFails) ==
    Mutation("repo.Update", c, rows, RepoUpdate(rows, ad, ad.ID), client,
             storeFails, delFails)

UseCaseDeleteAd(c, rows, id, client, storeFails, delFails) ==
    Mutation("repo.Delete", c, rows, RepoDelete(rows, id), client,
             storeFails, delFails)

-----------------------------------------------------------------------------
(* HTTP server: the four handlers, one request at a time. gin.Recovery turns
   a panic below a handler into a 500 *)

Answer(req, rep, made) ==
    /\ request' = req
    /\ reply' = rep
    /\ calls' = made

Rejected == [NoReply EXCEPT !.status = StatusBadRequest]
Failed == [NoReply EXCEPT !.status = StatusInternalServerError]

\* c.JSON(status, ad): the ad as the handler holds it
AdReply(ad) ==
    [id |-> ad.ID, status |-> ad.Status, price |-> ad.Price,
     created_at |-> ad.CreatedAt]

\* The calls that fail while a request is handled: <<getFails, storeFails,
\* setFails>> of GetAds, <<storeFails, delFails>> of a mutation
GetFaults == BOOLEAN \X BOOLEAN \X BOOLEAN
MutationFaults == {<<FALSE, FALSE>>, <<TRUE, FALSE>>, <<FALSE, TRUE>>}

\* The request as handled: its parameters and the calls that failed
Asked(handler, f, idText, body, getFails, storeFails, setFails, delFails, entry) ==
    [handler |-> handler, filter |-> f, id |-> idText, body |-> body,
     getFails |-> getFails, storeFails |-> storeFails, setFails |-> setFails,
     delFails |-> delFails, entry |-> entry]

\* c.JSON(http.StatusBadRequest, ...) and return: nothing else is done
Reject(req) ==
    /\ Answer(req, Rejected, <<>>)
    /\ UNCHANGED <<store, nextID, version, cache>>

\* AdHandler.GetAds
HandleGetAds(f) ==
    LET entry == IF redisClient THEN CacheEntry(cache, buildCacheKey(f))
                 ELSE "none"
    IN  /\ IF ~ShouldBindQuery(f)
           THEN Reject(Asked("GetAds", f, <<>>, NoBodyJSON, FALSE, FALSE, FALSE,
                             FALSE, entry))
           ELSE \E x \in GetFaults :
                LET r == UseCaseGetAds(cache, store, f, redisClient, x[1], x[2],
                                       x[3])
                IN  /\ cache' = r.cache
                    /\ Answer(Asked("GetAds", f, <<>>, NoBodyJSON, x[1], x[2],
                                    x[3], FALSE, entry),
                              IF r.outcome = "ok"
                              THEN [NoReply EXCEPT !.status = StatusOK,
                                                   !.page = Marshal(r.resp)]
                              ELSE Failed,
                              r.calls)
                    /\ UNCHANGED <<store, nextID, version>>
        /\ UNCHANGED <<cachedAt, invalidated, proc, redisClient>>
        /\ UNCHANGED harnessVars
        /\ UNCHANGED bootVars

\* What a handled mutation leaves: table, sequence, cache, and the reply
Mutated(req, r, inserted, status, ad) ==
    /\ r.outcome # "error" => version < MaxWrites
    /\ (inserted /\ r.outcome # "error") => nextID <= MaxRows
    /\ store' = r.rows
    /\ cache' = r.cache
    /\ nextID' = IF inserted /\ r.outcome # "error" THEN nextID + 1 ELSE nextID
    /\ version' = IF r.outcome # "error" THEN version + 1 ELSE version
    /\ Answer(req,
              IF r.outcome = "ok"
              THEN [NoReply EXCEPT !.status = status, !.ad = ad]
              ELSE Failed,
              r.calls)

\* AdHandler.CreateAd
HandleCreateAd(body) ==
    LET bound == ShouldBindJSON(body)
    IN  /\ IF ~bound.ok
           THEN Reject(Asked("CreateAd", BaseFilter, <<>>, body, FALSE, FALSE,
                             FALSE, FALSE, "none"))
           ELSE \E x \in MutationFaults :
                Mutated(Asked("CreateAd", BaseFilter, <<>>, body, FALSE, x[1],
                              FALSE, x[2], "none"),
                        UseCaseCreateAd(cache, store, nextID, bound.ad,
                                        redisClient, x[1], x[2]),
                        TRUE, StatusCreated, AdReply(bound.ad))
        /\ UNCHANGED <<cachedAt, invalidated, proc, redisClient>>
        /\ UNCHANGED harnessVars
        /\ UNCHANGED bootVars

\* AdHandler.UpdateAd
HandleUpdateAd(idText, body) ==
    LET id == ParseUint(idText)
        bound == ShouldBindJSON(body)
        ad == [bound.ad EXCEPT !.ID = id.v]
    IN  /\ IF ~id.ok \/ ~bound.ok
           THEN Reject(Asked("UpdateAd", BaseFilter, idText, body, FALSE, FALSE,
                             FALSE, FALSE, "none"))
           ELSE \E x \in MutationFaults :
                Mutated(Asked("UpdateAd", BaseFilter, idText, body, FALSE, x[1],
                              FALSE, x[2], "none"),
                        UseCaseUpdateAd(cache, store, ad, redisClient, x[1],
                                        x[2]),
                        FALSE, StatusOK, AdReply(ad))
        /\ UNCHANGED <<cachedAt, invalidated, proc, redisClient>>
        /\ UNCHANGED harnessVars
        /\ UNCHANGED bootVars

\* AdHandler.DeleteAd
HandleDeleteAd(idText) ==
    LET id == ParseUint(idText)
    IN  /\ IF ~id.ok
           THEN Reject(Asked("DeleteAd", BaseFilter, idText, NoBodyJSON, FALSE,
                             FALSE, FALSE, FALSE, "none"))
           ELSE \E x \in MutationFaults :
                Mutated(Asked("DeleteAd", BaseFilter, idText, NoBodyJSON, FALSE,
                              x[1], FALSE, x[2], "none"),
                        UseCaseDeleteAd(cache, store, id.v, redisClient, x[1],
                                        x[2]),
                        FALSE, StatusNoContent, NoAdJSON)
        /\ UNCHANGED <<cachedAt, invalidated, proc, redisClient>>
        /\ UNCHANGED harnessVars
        /\ UNCHANGED bootVars

\* The five minutes of an entry are over, between two requests
EntryExpires(key) ==
    /\ key \in DOMAIN cache
    /\ cache' = CacheDel(cache, key)
    /\ Answer(NoRequest, NoReply, <<>>)
    /\ UNCHANGED <<store, nextID, version, cachedAt, invalidated, proc,
                   redisClient>>
    /\ UNCHANGED harnessVars
    /\ UNCHANGED bootVars

\* The requests the server is sent
TokenFilter == [BaseFilter EXCEPT !.PageToken = "1"]
NoLangFilter == [BaseFilter EXCEPT !.Lang = ""]
APIFilters == {BaseFilter, TokenFilter, NoLangFilter}

JSONNumber(n) == [kind |-> "number", v |-> n]
JSONString(n) == [kind |-> "string", v |-> n]

BodyBike ==
    BodyJSON(TRUE, Text(2, "bike"), <<5>>, JSONNumber(StatusActive),
             PriceJSON(100, "string", <<"8", "4", "0">>))
BodyNumberCurrency ==
    BodyJSON(TRUE, Text(2, "bike"), <<5>>, JSONNumber(StatusActive),
             PriceJSON(100, "number", <<"8", "4", "0">>))
BodyNoCurrency ==
    BodyJSON(TRUE, Text(2, "car"), <<7>>, JSONNumber(StatusDraft),
             PriceJSON(50, "absent", <<>>))
BodyWordCurrency ==
    BodyJSON(TRUE, Text(2, "car"), <<7>>, JSONNumber(StatusDraft),
             PriceJSON(50, "string", <<"u", "s", "d">>))
BodyEmptyCurrency ==
    BodyJSON(TRUE, Text(2, "car"), <<7>>, JSONNumber(StatusDraft),
             PriceJSON(50, "string", <<>>))
BodyFractionCurrency ==
    BodyJSON(TRUE, Text(2, "car"), <<7>>, JSONNumber(StatusDraft),
             PriceJSON(50, "number", <<"8", ".", "5">>))
BodyStatus99 ==
    BodyJSON(TRUE, Text(2, "free"), <<>>, JSONNumber(99), NoPriceJSON)
BodyQuotedStatus ==
    BodyJSON(TRUE, Text(2, "free"), <<>>, JSONString(3), NoPriceJSON)

APIBodies ==
    {BodyBike, BodyNumberCurrency, BodyNoCurrency, BodyWordCurrency,
     BodyEmptyCurrency, BodyFractionCurrency, BodyStatus99, BodyQuotedStatus,
     NoBodyJSON}

\* The bodies sent to update an ad
UpdateBodies == {BodyBike, BodyNoCurrency, BodyStatus99, NoBodyJSON}

APIIDs == {<<"1">>, <<"-", "1">>}

\* initRedis returned a client, or failed and main went on with nil
InitAPI ==
    /\ store = <<>>
    /\ nextID = 1
    /\ cache = EmptyCache
    /\ cachedAt = EmptyCache
    /\ version = 0
    /\ invalidated = 0
    /\ proc = [p \in Procs |-> IdleProc]
    /\ qfilter = BaseFilter
    /\ qresp = NoResponse
    /\ qprev = [filter |-> BaseFilter, resp |-> NoResponse]
    /\ qphase = "off"
    /\ redisClient \in BOOLEAN
    /\ request = NoRequest
    /\ reply = NoReply
    /\ calls = <<>>
    /\ database = ServingDatabase
    /\ boot = Serving

NextAPI ==
    \/ \E f \in APIFilters : HandleGetAds(f)
    \/ \E body \in APIBodies : HandleCreateAd(body)
    \/ \E id \in APIIDs, body \in UpdateBodies : HandleUpdateAd(id, body)
    \/ \E id \in APIIDs : HandleDeleteAd(id)
    \/ \E key \in DOMAIN cache : EntryExpires(key)

SpecAPI == InitAPI /\ [][NextAPI]_vars

-----------------------------------------------------------------------------
(* Repository harness: FindWithFilter applied to a filter, then to the next
   page the response names *)

\* The predicate parts of the filters under test: categories, properties,
\* text, language, price bounds, currency, status, property filters
Predicates ==
    { <<<<>>, {}, "", "en", Unset, Unset, "", Unset, <<>>>>,
      <<<<5>>, {}, "", "en", Unset, Unset, "", Unset, <<>>>>,
      <<<<7, 5>>, {}, "", "en", Unset, Unset, "", Unset, <<>>>>,
      <<<<>>, {}, "car", "en", Unset, Unset, "", Unset, <<>>>>,
      <<<<>>, {}, "", "en", Unset, Unset, "", Some(StatusActive), <<>>>>,
      <<<<>>, {<<"color", <<"red">>>>}, "", "en", Unset, Unset, "", Unset, <<>>>>,
      <<<<>>, {<<"color", <<>>>>}, "", "en", Unset, Unset, "", Unset, <<>>>>,
      <<<<>>, {}, "", "en", Some(60), Unset, CurrencyUSD, Unset, <<>>>>,
      <<<<>>, {}, "", "en", Unset, Some(60), "", Unset, <<>>>>,
      <<<<5>>, {}, "", "en", Unset, Unset, "", Some(StatusDraft), <<>>>>,
      <<<<>>, {}, "", "ru", Unset, Unset, "", Unset, <<>>>>,
      <<<<>>, {}, "", "en", Unset, Unset, "", Unset,
        <<[PropertyID |-> 1, Values |-> <<"red">>]>>>> }

SortedPredicates ==
    { p \in Predicates : p[1] \in {<<>>, <<5>>} /\ p[2] = {} /\ p[3] = ""
                         /\ p[4] = "en" /\ ~p[6].set /\ ~p[8].set /\ p[9] = <<>> }

SortModes == {"price_asc", "price_desc", "date_desc"}
PageSizes == {0, 1, 2, -1}
PageTokens == {"", "2", "9"}

MkFilter(p, sort, token, size) ==
    Filter(p[1], p[2], p[3], sort, token, size, p[4], p[5], p[6], p[7], p[8], p[9])

QueryFilters ==
    {MkFilter(p, "", t, n) : p \in Predicates, t \in PageTokens, n \in PageSizes}
        \cup {MkFilter(p[1], p[2], t, n) :
                p \in SortedPredicates \X SortModes, t \in PageTokens, n \in PageSizes}

\* The table after the ads ts were created in turn
MkStore(ts) == [i \in 1..Len(ts) |-> NewRow(ts[i], i)]

QueryStores ==
    {RepoDelete(MkStore(ts), d) :
        ts \in UNION {[1..k -> AdInputs] : k \in 0..MaxRows}, d \in 0..MaxRows}
        \cup {MkStore([i \in 1..n |-> AdBike]) :
                n \in DefaultPageSize..(DefaultPageSize + 1)}

QueryFirst ==
    /\ qphase = "init"
    /\ qresp' = FindWithFilter(store, qfilter)
    /\ qphase' = "page1"
    /\ UNCHANGED <<qfilter, qprev>>
    /\ UNCHANGED svcVars
    /\ UNCHANGED bootVars
    /\ UNCHANGED apiVars

QueryNext ==
    /\ qphase = "page1"
    /\ qresp.outcome = "ok"
    /\ qresp.NextPage # ""
    /\ qprev' = [filter |-> qfilter, resp |-> qresp]
    /\ qfilter' = [qfilter EXCEPT !.PageToken = qresp.NextPage]
    /\ qresp' = FindWithFilter(store, qfilter')
    /\ qphase' = "page2"
    /\ UNCHANGED svcVars
    /\ UNCHANGED bootVars
    /\ UNCHANGED apiVars

InitQuery ==
    /\ store \in QueryStores
    /\ nextID = 1
    /\ cache = EmptyCache
    /\ cachedAt = EmptyCache
    /\ version = 0
    /\ invalidated = 0
    /\ proc = [p \in Procs |-> IdleProc]
    /\ qfilter \in QueryFilters
    /\ qresp = NoResponse
    /\ qprev = [filter |-> qfilter, resp |-> NoResponse]
    /\ qphase = "init"
    /\ redisClient = TRUE
    /\ request = NoRequest
    /\ reply = NoReply
    /\ calls = <<>>
    /\ database = ServingDatabase
    /\ boot = Serving

NextQuery == QueryFirst \/ QueryNext

SpecQuery == InitQuery /\ [][NextQuery]_vars

-----------------------------------------------------------------------------
(* Startup: main calls initDatabase on the database it finds *)

InitStartup ==
    /\ store = <<>>
    /\ nextID = 1
    /\ cache = EmptyCache
    /\ cachedAt = EmptyCache
    /\ version = 0
    /\ invalidated = 0
    /\ proc = [p \in Procs |-> IdleProc]
    /\ qfilter = BaseFilter
    /\ qresp = NoResponse
    /\ qprev = [filter |-> BaseFilter, resp |-> NoResponse]
    /\ qphase = "init"
    /\ redisClient = TRUE
    /\ request = NoRequest
    /\ reply = NoReply
    /\ calls = <<>>
    /\ database \in StartDatabases
    /\ \E exists \in BOOLEAN :
        /\ ~exists => database = EmptyDatabase
        /\ boot = Boot("open", exists, FALSE, "", NoError)

NextStartup == OpenDatabase \/ ValidateFirst \/ RunMigration \/ ValidateAgain

SpecStartup == InitStartup /\ [][NextStartup]_vars

-----------------------------------------------------------------------------
(* Properties of the repository query, under SpecQuery *)

Answered == qphase \in {"page1", "page2"}

IDs(items) == {items[i].ID : i \in 1..Len(items)}

\* The rows of the table that satisfy every predicate of f
MatchingRows(rows, f) == {r \in Range(rows) : Matches(r, f)}

\* C3: two filters with the same cache key get the same response on the same
\* table, so a cached response is the response to the filter requested.
C3_SameKeySameResult ==
    qphase = "page1" =>
        \A g \in QueryFilters :
            buildCacheKey(g) = buildCacheKey(qfilter) =>
                FindWithFilter(store, g) = qresp

\* C4: under the date-descending sort the page fetched with the first page's
\* token holds the next N rows of the sort order and none of the first page.
C4_PaginationContinuity ==
    (/\ qphase = "page2"
     /\ qprev.filter.PageToken = ""
     /\ qprev.filter.SortBy \notin {"price_asc", "price_desc"}
     /\ EffectivePageSize(qfilter) >= 1)
    => LET n == EffectivePageSize(qfilter)
           all == OrderBy(SelectSeq(store, LAMBDA r : Matches(r, qfilter)),
                          qfilter.SortBy)
       IN  /\ qresp.outcome = "ok"
           /\ qresp.Items = SubSeq(all, n + 1, Min(2 * n, Len(all)))
           /\ IDs(qresp.Items) \cap IDs(qprev.resp.Items) = {}

\* C5: without a page token and with an effective page size N >= 1, more than
\* N matching ads give exactly N items and a next-page token.
C5_FullPageAndToken ==
    (/\ qphase = "page1"
     /\ qfilter.PageToken = ""
     /\ EffectivePageSize(qfilter) >= 1
     /\ Cardinality(MatchingRows(store, qfilter)) > EffectivePageSize(qfilter))
    => /\ qresp.outcome = "ok"
       /\ Len(qresp.Items) = EffectivePageSize(qfilter)
       /\ qresp.NextPage # ""

\* C5's case: the default page size with more than that many matching ads
C5_Witness ==
    /\ qphase = "page1"
    /\ qfilter.PageToken = ""
    /\ qfilter.PageSize = 0
    /\ Cardinality(MatchingRows(store, qfilter)) > DefaultPageSize
    /\ Len(qresp.Items) = DefaultPageSize
    /\ qresp.NextPage = ToString(qresp.Items[DefaultPageSize].ID)

\* C7: a filter without a page token that no ad matches is answered with no
\* items, a total count of zero and no next-page token.
C7_NoMatchEmptyResponse ==
    (/\ qphase = "page1"
     /\ qfilter.PageToken = ""
     /\ MatchingRows(store, qfilter) = {})
    => /\ qresp.outcome = "ok"
       /\ qresp.Items = <<>>
       /\ qresp.TotalCount = 0
       /\ qresp.NextPage = ""

\* C8: price_asc returns non-decreasing prices, price_desc non-increasing
\* ones, both with every ad without a price after every priced ad; any other
\* sort value returns the ads newest first.
C8_PriceSortNullsLast ==
    (Answered /\ qresp.outcome = "ok") =>
        \A i, j \in 1..Len(qresp.Items) :
            i < j =>
                LET a == qresp.Items[i]
                    b == qresp.Items[j]
                IN  CASE qfilter.SortBy = "price_asc" ->
                            /\ (~a.Price.has) => ~b.Price.has
                            /\ (a.Price.has /\ b.Price.has)
                                    => a.Price.value <= b.Price.value
                      [] qfilter.SortBy = "price_desc" ->
                            /\ (~a.Price.has) => ~b.Price.has
                            /\ (a.Price.has /\ b.Price.has)
                                    => a.Price.value >= b.Price.value
                      [] OTHER -> a.CreatedAt >= b.CreatedAt

\* C8's case: bike (100), car (50) and an ad without a price, created in that
\* order, come back under price_asc as car, bike, the unpriced ad
C8_Witness ==
    /\ qphase = "page1"
    /\ qfilter.SortBy = "price_asc"
    /\ Len(store) = 3
    /\ store[1].Price = Price(100, CurrencyUSD)
    /\ store[2].Price = Price(50, CurrencyUSD)
    /\ ~store[3].Price.has
    /\ qresp.Items = <<store[2], store[1], store[3]>>

\* The predicates of f other than the category predicate
OtherPredicates(row, f) ==
    /\ f.TextSearch # "" => f.TextSearch \in row.SearchVector
    /\ f.Status.set => row.Status = f.Status.v
    /\ \A p \in f.Properties :
            p[2] # <<>> => \E a \in row.Attributes :
                                a[1] = p[1] /\ \E k \in 1..Len(p[2]) : p[2][k] = a[2]
    /\ f.Currency # "" => (row.Price.has /\ row.Price.currency = f.Currency)
    /\ f.MinPrice.set => (row.Price.has /\ row.Price.value >= f.MinPrice.v)
    /\ f.MaxPrice.set => (row.Price.has /\ row.Price.value <= f.MaxPrice.v)

SharesCategory(row, f) ==
    \E i \in 1..Len(row.CategoryIDs), j \in 1..Len(f.CategoryIDs) :
        row.CategoryIDs[i] = f.CategoryIDs[j]

\* C9: with a non-empty category set only ads sharing a category with it are
\* returned, and every such ad satisfying the other predicates is counted; an
\* empty set restricts nothing.
C9_CategoryFilter ==
    (Answered /\ qresp.outcome = "ok") =>
        /\ qfilter.CategoryIDs # <<>> =>
                \A i \in 1..Len(qresp.Items) : SharesCategory(qresp.Items[i], qfilter)
        /\ qresp.TotalCount =
                Cardinality({r \in Range(store) :
                                /\ qfilter.CategoryIDs # <<>> => SharesCategory(r, qfilter)
                                /\ OtherPredicates(r, qfilter)})

\* C9's case: of three ads only one shares a category with the request
C9_Witness ==
    /\ qphase = "page1"
    /\ qfilter.CategoryIDs = <<7, 5>>
    /\ Len(store) = 3
    /\ Len(qresp.Items) = 1
    /\ qresp.Items[1].CategoryIDs = <<5, 6>>
    /\ qresp.TotalCount = 1

\* C10: the total count is the number of ads matching the predicates, for
\* every page size and every valid page token.
C10_TotalCountIndependent ==
    (/\ Answered
     /\ qfilter.PageToken # "" => TokenIDs(store, qfilter.PageToken) # {})
    => /\ qresp.outcome = "ok"
       /\ qresp.TotalCount = Cardinality(MatchingRows(store, qfilter))

\* The matching rows in the sort order, from the row after the token's on
RowsBeyond(rows, f) ==
    LET all == OrderBy(SelectSeq(rows, LAMBDA r : Matches(r, f)), f.SortBy)
    IN  IF f.PageToken = "" THEN all
        ELSE SelectSeq(all, LAMBDA r :
                \A t \in TokenIDs(rows, f.PageToken) : r.ID > t)

\* C21: a query that gets past the token lookup fetches at most N+1 rows for
\* the effective page size N. With the extra row present the first N rows are
\* returned and the next-page token is the decimal id of the last of them;
\* otherwise every fetched row is returned and the token is empty. So the
\* token is non-empty exactly when a row exists beyond the page.
C21_LookAheadRow ==
    (Answered /\ qresp.outcome # "error") =>
        LET N == EffectivePageSize(qfilter)
            beyond == RowsBeyond(store, qfilter)
            fetched == Limit(beyond, N + 1)
        IN  /\ qresp.outcome = "ok"
            /\ Len(fetched) <= N + 1
            /\ Len(fetched) = N + 1 =>
                    /\ qresp.Items = SubSeq(fetched, 1, N)
                    /\ qresp.NextPage = ToString(qresp.Items[N].ID)
            /\ Len(fetched) < N + 1 =>
                    /\ qresp.Items = fetched
                    /\ qresp.NextPage = ""
            /\ qresp.NextPage # "" <=> Len(beyond) > Len(qresp.Items)

\* C22: for every page size a request can carry, zero, positive or negative,
\* FindWithFilter ends with a response or an error, never with a slice bound
\* out of range, and a response holds no more items than the effective page
\* size.
C22_PageSizeBounds ==
    Answered =>
        /\ qresp.outcome \in {"ok", "error"}
        /\ qresp.outcome = "ok" => Len(qresp.Items) <= EffectivePageSize(qfilter)

-----------------------------------------------------------------------------
(* Properties of the cached read path, under Spec *)

AllIdle == \A p \in Procs : proc[p].pc = "idle"

\* C1: once a create, update or delete has returned, its invalidation call
\* having succeeded, a GetAds that starts later is not answered with a payload
\* cached before that mutation.
C1_CacheCoherence ==
    \A p \in Readers :
        (proc[p].result.op = "GetAds" /\ proc[p].result.fromCache)
            => ~proc[p].result.staleHit

\* C2: when a GetAds and a concurrent create, update or delete have both
\* returned, every cached entry is what the store holds now.
C2_NoStaleEntry ==
    AllIdle =>
        \A f \in ServiceFilters :
            buildCacheKey(f) \in DOMAIN cache =>
                cache[buildCacheKey(f)] = Marshal(FindWithFilter(store, f))

\* C6: a GetAds that repeats the context's previous GetAds, same filter and
\* no create, update or delete under way or committed since that one
\* started, returns the same body.
C6_Idempotent ==
    \A p \in Readers : proc[p].result.repeats => proc[p].result.same

-----------------------------------------------------------------------------
(* Properties of the handlers and the use case, under SpecAPI. Every step of
   SpecAPI that is not an expiry handles the request it leaves in request *)

\* The step handled a request that reached the use case
Served(handler) ==
    /\ request'.handler = handler
    /\ reply'.status # StatusBadRequest

CallsMade(made, names) == {i \in 1..Len(made) : made[i].call \in names}

\* C11: when cache.Get returns a decodable payload under the filter's key,
\* GetAds answers with that payload, and neither the repository is queried
\* nor the cache written: table and cache are as before.
C11_CacheHitUntouched ==
    [][(/\ Served("GetAds")
        /\ redisClient
        /\ ~request'.getFails
        /\ CacheEntry(cache, buildCacheKey(request'.filter)) = "decodable")
       => (/\ reply'.status = StatusOK
           /\ reply'.page = cache[buildCacheKey(request'.filter)]
           /\ CallsMade(calls', {"repo.FindWithFilter", "cache.Set"}) = {}
           /\ store' = store
           /\ cache' = cache)]_vars

\* A hit on a cached page that holds an ad
C11_Witness ==
    /\ request.handler = "GetAds"
    /\ request.entry = "decodable"
    /\ ~request.getFails
    /\ reply.status = StatusOK
    /\ Len(reply.page.items) > 0
    /\ calls = <<Call("cache.Get", buildCacheKey(request.filter), 0)>>

\* C12: when the cache holds no entry, or an undecodable one, under the
\* filter's key, GetAds queries the repository; when the query succeeds it
\* stores the serialized result under that key for five minutes and answers
\* with the fresh result, also when the cache write fails.
C12_ReadThrough ==
    [][(/\ Served("GetAds")
        /\ redisClient
        /\ CacheEntry(cache, buildCacheKey(request'.filter))
                \in {"none", "undecodable"})
       => LET key == buildCacheKey(request'.filter)
              found == FindWithFilter(store, request'.filter)
          IN  /\ Len(calls') >= 2
              /\ calls'[2].call = "repo.FindWithFilter"
              /\ store' = store
              /\ (~request'.storeFails /\ found.outcome = "ok") =>
                    /\ reply'.status = StatusOK
                    /\ reply'.page = Marshal(found)
                    /\ calls' = <<Call("cache.Get", key, 0),
                                  Call("repo.FindWithFilter", "", 0),
                                  Call("cache.Set", key, CacheTTL)>>
                    /\ cache' = IF request'.setFails THEN cache
                                ELSE CacheSet(cache, key, Marshal(found))]_vars

\* An undecodable entry was replaced by the fresh result
C12_Witness ==
    /\ request.handler = "GetAds"
    /\ request.entry = "undecodable"
    /\ ~request.setFails
    /\ reply.status = StatusOK
    /\ Len(reply.page.items) > 0
    /\ cache[buildCacheKey(request.filter)] = reply.page
    /\ Len(calls) = 3

Mutations == {"CreateAd", "UpdateAd", "DeleteAd"}

\* C13: when the repository Create, Update or Delete returns an error, the
\* use case returns it (the handler answers 500) without any invalidation
\* call: every cache entry, and the table, is as before.
C13_FailedMutationNoInvalidation ==
    [][(/\ request'.handler \in Mutations
        /\ reply'.status # StatusBadRequest
        /\ request'.storeFails)
       => (/\ reply'.status = StatusInternalServerError
           /\ CallsMade(calls', {"cache.Del"}) = {}
           /\ Len(calls') = 1
           /\ cache' = cache
           /\ store' = store)]_vars

\* A delete whose repository call failed, with results in the cache
C13_Witness ==
    /\ request.handler = "DeleteAd"
    /\ request.storeFails
    /\ reply.status = StatusInternalServerError
    /\ calls = <<Call("repo.Delete", "", 0)>>
    /\ DOMAIN cache # {}
    /\ Len(store) > 0

\* A cache call of the handled request failed: the get, the set that follows
\* a miss, the delete, or any of them because the client is nil
CacheFailed ==
    \/ ~redisClient
    \/ request.getFails
    \/ request.setFails /\ request.entry # "decodable"
    \/ request.delFails

\* C14: no request fails because of the cache. Whenever a cache call fails,
\* also because redis was not connected at startup, GetAds still answers with
\* the store's result, and a create, update or delete whose store mutation
\* succeeded still answers with success.
C14_CacheFailuresNotSurfaced ==
    /\ (/\ request.handler = "GetAds"
        /\ reply.status # StatusBadRequest
        /\ CacheFailed
        /\ ~request.storeFails
        /\ FindWithFilter(store, request.filter).outcome = "ok")
       => (/\ reply.status = StatusOK
           /\ reply.page = Marshal(FindWithFilter(store, request.filter)))
    /\ (/\ request.handler \in Mutations
        /\ reply.status # StatusBadRequest
        /\ CacheFailed
        /\ ~request.storeFails)
       => reply.status \in {StatusOK, StatusCreated, StatusNoContent}

\* C15: when the repository query fails during GetAds, GetAds returns the
\* error (the handler answers 500), the query is not made a second time, and
\* nothing is written to the cache.
C15_StoreFailurePropagates ==
    [][(/\ Served("GetAds")
        /\ redisClient
        /\ ~CacheHit(cache, buildCacheKey(request'.filter), request'.getFails)
        /\ \/ request'.storeFails
           \/ FindWithFilter(store, request'.filter).outcome = "error")
       => (/\ reply'.status = StatusInternalServerError
           /\ Cardinality(CallsMade(calls', {"repo.FindWithFilter"})) = 1
           /\ CallsMade(calls', {"cache.Set"}) = {}
           /\ cache' = cache
           /\ store' = store)]_vars

\* A query that failed on a table holding ads, past a cache miss
C15_Witness ==
    /\ request.handler = "GetAds"
    /\ request.storeFails
    /\ request.entry = "none"
    /\ reply.status = StatusInternalServerError
    /\ calls = <<Call("cache.Get", buildCacheKey(request.filter), 0),
                 Call("repo.FindWithFilter", "", 0)>>
    /\ Len(store) > 0

\* C16: after a successful POST /v3/ads the handler answers 201 with the ad
\* as stored: its id is the id the database assigned to the inserted row, and
\* its creation time is the row's.
C16_CreateReturnsStoredAd ==
    (request.handler = "CreateAd" /\ reply.status = StatusCreated)
        => /\ Len(store) > 0
           /\ reply.ad.id = store[Len(store)].ID
           /\ reply.ad.created_at = store[Len(store)].CreatedAt

\* The id of the path is no unsigned decimal number
MalformedID(idText) ==
    \/ idText = <<>>
    \/ \E i \in 1..Len(idText) : ~IsDigit(idText[i])

\* The body is no JSON object, or a member has the wrong JSON type
MalformedBody(body) ==
    \/ ~body.wellFormed
    \/ body.status.kind # "number"

\* The request the step handled fails validation
Invalid(req) ==
    \/ req.handler \in {"UpdateAd", "DeleteAd"} /\ MalformedID(req.id)
    \/ req.handler \in {"CreateAd", "UpdateAd"} /\ MalformedBody(req.body)
    \/ req.handler = "GetAds" /\ req.filter.Lang = ""

\* C17: a request with a malformed id (update, delete), a malformed body
\* (create, update) or no lang parameter (list) is answered with 400 before
\* the use case is invoked: no store or cache call is made, and table,
\* sequence and cache are as before.
C17_ValidationFirst ==
    [][Invalid(request')
       => (/\ reply'.status = StatusBadRequest
           /\ calls' = <<>>
           /\ store' = store
           /\ nextID' = nextID
           /\ cache' = cache)]_vars

\* An update with a good id and a malformed body, rejected while the table
\* and the cache hold something
C17_Witness ==
    /\ request.handler = "UpdateAd"
    /\ ~MalformedID(request.id)
    /\ MalformedBody(request.body)
    /\ reply.status = StatusBadRequest
    /\ calls = <<>>
    /\ Len(store) > 0
    /\ DOMAIN cache # {}

\* The create or update request got past its decoding with a price in its body
PriceAccepted ==
    /\ request.handler \in {"CreateAd", "UpdateAd"}
    /\ request.body.price.present
    /\ reply.status # StatusBadRequest

\* C18: every price that Price.UnmarshalJSON accepts carries an amount and a
\* non-empty numeric currency code, so a body whose price has no currency, or
\* a currency that is no number, is rejected, and no stored price is without
\* a currency.
C18_PriceInvariant ==
    /\ PriceAccepted
        => /\ request.body.price.currency.kind # "absent"
           /\ AllDigits(request.body.price.currency.text)
    /\ \A i \in 1..Len(store) :
            store[i].Price.has => store[i].Price.currency # ""

\* C19: in every reachable state the status of every stored ad is one of the
\* nine known ordinals, StatusDraft (0) to StatusDuplicate (8), whatever
\* create and update requests were handled.
C19_StatusInvariant ==
    \A i \in 1..Len(store) : store[i].Status \in StatusDraft..StatusDuplicate

\* C20: when the page token of a GetAds request names the id of no stored
\* ad, GetAds returns the lookup error (the handler answers 500, not a page)
\* and the request caches no result under the filter's key.
C20_UnknownTokenFails ==
    (/\ request.handler = "GetAds"
     /\ reply.status # StatusBadRequest
     /\ request.filter.PageToken # ""
     /\ TokenIDs(store, request.filter.PageToken) = {})
       => /\ reply.status = StatusInternalServerError
          /\ reply.page = NoReply.page
          /\ CallsMade(calls, {"cache.Set"}) = {}

-----------------------------------------------------------------------------
(* Properties of startup, under SpecStartup *)

\* C23: when the first schema validation fails because a table does not
\* exist and initDatabase has executed the initial migration, the second
\* validation accepts the schema the migration created: initDatabase does not
\* return an error, it returns the handle.
C23_StartupAfterMigration ==
    boot.migrated => boot.pc \in {"revalidate", "serving"}

=============================================================================
